---- MODULE Spec2Model ----
(***************************************************************************)
(* The image compressor widget of src/components/UI/Header.tsx             *)
(* (ModernImageCompressor): its React state, the blob URLs it creates and  *)
(* revokes, its in-flight asynchronous work (compression runs, dimension   *)
(* loads) and its timers.                                                  *)
(*                                                                         *)
(* Event handlers run to completion on one thread, so each handler and     *)
(* each asynchronous continuation is one action.  A handler invoked by a   *)
(* user event reads the state of the latest render; the continuation of an *)
(* async function reads the values its closure captured when the function  *)
(* was called (a run record carries them).  After unmount React ignores    *)
(* state setters, and statusRef.current is null.                           *)
(***************************************************************************)
EXTENDS Integers, Sequences, FiniteSets, TLC

VARIABLES
    file,               \* useState: the selected File, or NoFile
    previewUrl,         \* useState: blob URL of the file, or NULL
    dimensions,         \* useState: NoDims, or the id of the file whose natural size is shown
    showModal,          \* useState
    loading,            \* useState
    progress,           \* useState
    compressedBlobUrl,  \* useState: blob URL of the result, or NULL
    compressedSize,     \* useState: blob.size of the result, or NoSize
    statusText,         \* statusRef.current.textContent
    listening,          \* whether the keydown listener of the Escape effect is registered
    mounted,            \* whether the component is mounted
    urls,               \* the browser's blob URL store: every URL created, with its revocations
    runs,               \* handleCompress invocations suspended at an await
    dimLoads,           \* loadImage calls of onDrop not yet settled
    timers,             \* setInterval / setTimeout timers not yet cleared or fired
    timed,              \* how timers are tracked (fixed by the initial state): on a
                        \* clock, due in any order, or not at all
    format,             \* useState: the MIME type selected for the output
    quality,            \* useState: the quality selected, in hundredths
    call,               \* a call of one of the component's pure functions, or NoCall
    ret,                \* what that call returned, or NoRet
    lastDrop,           \* the File of the latest drop or selection offered to the dropzone
    nRuns,              \* number of handleCompress invocations started
    guardBroken         \* history: handleRemove ran while a run was in flight, and one still is

vars == <<file, previewUrl, dimensions, showModal, loading, progress,
          compressedBlobUrl, compressedSize, statusText, listening, mounted,
          urls, runs, dimLoads, timers,
          timed, format, quality, call, ret, lastDrop, nRuns, guardBroken>>

\* The component and its environment.
stateVars == <<file, previewUrl, dimensions, showModal, loading, progress,
               compressedBlobUrl, compressedSize, statusText, listening, mounted,
               urls, runs, dimLoads, timers,
               timed, format, quality, lastDrop, nRuns, guardBroken>>

\* What the handle claims read: everything but progress and the timers.
handleVars == <<file, previewUrl, dimensions, showModal, loading,
                compressedBlobUrl, compressedSize, statusText, listening, mounted,
                urls, runs, dimLoads,
                timed, format, quality, call, ret, lastDrop, nRuns, guardBroken>>

----------------------------------------------------------------------------
(* Bounds of the model *)

\* Files offered to the dropzone and runs started, in the specification without the
\* timers.
MaxDrops == 2
MaxRuns == 2
\* The same, in the specification with the timers on a clock.
MaxTimedDrops == 1
MaxTimedRuns == 1
\* Milliseconds per step of the clock.
TimeUnit == 20
\* Files offered and runs started, in the specification with timers due in any order.
MaxProgressDrops == 1
MaxProgressRuns == 2
\* Files offered and runs started, in the specification with the format and quality
\* controls.
MaxSettingsDrops == 1
MaxSettingsRuns == 1
\* How far below 0.05 and above 1 the qualities handed to the clamp go, in hundredths.
QualityMargin == 20
\* The byte counts handed to formatBytes go up to multiples of 1024^MaxExponent.
MaxExponent == 4

----------------------------------------------------------------------------
(* Values *)

NULL == 0
NoSize == -1
NoDims == 0
NoBlob == -1
NoFile == [id |-> 0, size |-> 0, image |-> FALSE]
NoCall == [fn |-> "none"]
NoRet == [fn |-> "none"]

maxSize == 10 * 1024 * 1024

IntervalDelay == 120
DoneDelay == 300
ResetDelay == 700

FileSizes == {2000000, maxSize, maxSize + 1}

\* The files a user can offer as the id-th drop: images of each size, and one non-image.
DroppableFiles(id) ==
    {[id |-> id, size |-> s, image |-> TRUE] : s \in FileSizes}
        \cup {[id |-> id, size |-> 2000000, image |-> FALSE]}

\* The sizes of the blobs the encoder may produce.
BlobSizes == {400000, 2500000}

Max(a, b) == IF a >= b THEN a ELSE b
Min(a, b) == IF a <= b THEN a ELSE b

\* Math.ceil(a / 8) for an integer a of either sign.
Ceil8(a) == -((-a) \div 8)

RemoveAt(s, i) == SubSeq(s, 1, i - 1) \o SubSeq(s, i + 1, Len(s))

----------------------------------------------------------------------------
(* The blob URL store *)

\* URL.createObjectURL: a new URL, the next index of the store.  A URL stands for the
\* blob it was made of: the file it comes from (of) and its MIME type.
CreateObjectURL(store, kind, of, type) ==
    Append(store, [kind |-> kind, of |-> of, type |-> type, revokedBy |-> <<>>])

\* URL.revokeObjectURL(u), called by handler `by`.
RevokeObjectURL(store, u, by) ==
    [store EXCEPT ![u].revokedBy = Append(@, by)]

\* if (u) URL.revokeObjectURL(u)
RevokeIfSet(store, u, by) ==
    IF u # NULL THEN RevokeObjectURL(store, u, by) ELSE store

Live(u) == urls[u].revokedBy = <<>>
LiveUrls(kind) == {u \in DOMAIN urls : urls[u].kind = kind /\ Live(u)}

\* A state setter: ignored once the component is unmounted.
SetState(new, old) == IF mounted THEN new ELSE old

----------------------------------------------------------------------------
(* Timers and the progress animation *)

Interval(target) == [kind |-> "interval", target |-> target, rem |-> IntervalDelay]
DoneTimer == [kind |-> "done", target |-> 100, rem |-> DoneDelay]
ResetTimer == [kind |-> "reset", target |-> 0, rem |-> ResetDelay]

\* setInterval / setTimeout.  Timers are tracked while the component is mounted (their
\* callbacks only call setProgress), and not in the specifications that leave them out.
StartTimers(ts) == IF mounted /\ timed # "none" THEN timers \o ts ELSE timers

\* Timer i may fire.  On the clock: its delay has elapsed, and no timer set before it is
\* due as well (timers due together run in the order they were set; the sequence keeps
\* that order).  With the clock left out, every timer set may fire at any moment.
Due(i) ==
    \/ timed = "any"
    \/ /\ timers[i].rem = 0
       /\ \A j \in 1..(i - 1) : timers[j].rem > 0

\* animateProgressTo, first statement: setProgress((p) => Math.max(p, 5))
AnimateStart(p) == Max(p, 5)

\* Mutant of AnimateStep: without the Math.min(target, ...).
AnimateStepUncapped(target, p) == p + Ceil8(target - p) + 1

\* animateProgressTo, the interval's updater
AnimateStep(target, p) == Min(target, p + Ceil8(target - p) + 1)

\* One tick of an animateProgressTo interval.
IntervalFire(i) ==
    /\ timers[i].kind = "interval"
    /\ Due(i)
    /\ LET next == AnimateStep(timers[i].target, progress) IN
        /\ progress' = next
        /\ timers' = IF next >= timers[i].target
                       THEN RemoveAt(timers, i)
                       ELSE [timers EXCEPT ![i].rem = IntervalDelay]
    /\ UNCHANGED handleVars

\* setTimeout(() => setProgress(100), 300)
DoneTimerFire(i) ==
    /\ timers[i].kind = "done"
    /\ Due(i)
    /\ progress' = 100
    /\ timers' = RemoveAt(timers, i)
    /\ UNCHANGED handleVars

\* setTimeout(() => setProgress(0), 700)
ResetTimerFire(i) ==
    /\ timers[i].kind = "reset"
    /\ Due(i)
    /\ progress' = 0
    /\ timers' = RemoveAt(timers, i)
    /\ UNCHANGED handleVars

\* Time passes, as long as no timer is due.
Tick ==
    /\ timed = "clock"
    /\ timers # <<>>
    /\ \A i \in DOMAIN timers : timers[i].rem > 0
    /\ timers' = [i \in DOMAIN timers |->
                    [timers[i] EXCEPT !.rem = Max(0, @ - TimeUnit)]]
    /\ UNCHANGED <<progress, handleVars>>

----------------------------------------------------------------------------
(* The dropzone and onDrop *)

\* Mutant of AcceptedFiles: the dropzone configured without maxSize.
AcceptedFilesNoSizeLimit(f) ==
    IF f.image THEN <<f>> ELSE <<>>

\* useDropzone({accept: {"image/*": []}, multiple: false, maxSize}): the accepted files
\* of a selection of one file.
AcceptedFiles(f) ==
    IF f.image /\ f.size <= maxSize THEN <<f>> ELSE <<>>

OnDrop(acceptedFiles) ==
    IF acceptedFiles = <<>>
    THEN UNCHANGED <<file, previewUrl, compressedBlobUrl, compressedSize, urls, dimLoads>>
    ELSE LET f == acceptedFiles[1]
             revoked == RevokeIfSet(RevokeIfSet(urls, previewUrl, "onDrop"),
                                    compressedBlobUrl, "onDrop")
             url == Len(urls) + 1
         IN /\ urls' = CreateObjectURL(revoked, "preview", f.id, "image/*")
            /\ file' = f
            /\ previewUrl' = url
            /\ compressedBlobUrl' = NULL
            /\ compressedSize' = NoSize
            /\ dimLoads' = dimLoads \cup {[url |-> url, file |-> f.id]}

\* The user drops or selects file f.
DropFile(f, maxDrops) ==
    /\ mounted
    /\ lastDrop.id < maxDrops
    /\ f \in DroppableFiles(lastDrop.id + 1)
    /\ lastDrop' = f
    /\ OnDrop(AcceptedFiles(f))
    /\ UNCHANGED <<dimensions, showModal, loading, progress, statusText, listening,
                   mounted, runs, timers,
                   timed, format, quality, call, ret, nRuns, guardBroken>>

\* The loadImage of onDrop settles: .then(setDimensions(...)) or .catch(setDimensions(null)).
DimLoaded(l, ok) ==
    /\ l \in dimLoads
    /\ dimLoads' = dimLoads \ {l}
    /\ dimensions' = SetState(IF ok THEN l.file ELSE NoDims, dimensions)
    /\ UNCHANGED <<file, previewUrl, showModal, loading, progress, compressedBlobUrl,
                   compressedSize, statusText, listening, mounted, urls, runs, timers,
                   timed, format, quality, call, ret, lastDrop, nRuns, guardBroken>>

----------------------------------------------------------------------------
(* The editor section: format and quality controls, sizes, reduction, download *)

\* The options of the format select.
Formats == {"image/webp", "image/jpeg", "image/png"}

\* The range input: 0.05 to 1 in steps of 0.01, here in hundredths and sampled at its
\* ends and its middle.
SliderValues == {5, 50, 100}

\* The controls are part of the editor section, rendered iff previewUrl && file.
EditorShown == mounted /\ previewUrl # NULL /\ file # NoFile

\* onChange of the format select: setFormat(e.target.value)
SetFormat(m) ==
    /\ EditorShown
    /\ m \in Formats \ {format}
    /\ format' = m
    /\ UNCHANGED <<file, previewUrl, dimensions, showModal, loading, progress,
                   compressedBlobUrl, compressedSize, statusText, listening, mounted,
                   urls, runs, dimLoads, timers, timed, quality, call, ret, lastDrop,
                   nRuns, guardBroken>>

\* onChange of the quality slider: setQuality(Number(e.target.value))
SetQuality(q) ==
    /\ EditorShown
    /\ q \in SliderValues \ {quality}
    /\ quality' = q
    /\ UNCHANGED <<file, previewUrl, dimensions, showModal, loading, progress,
                   compressedBlobUrl, compressedSize, statusText, listening, mounted,
                   urls, runs, dimLoads, timers, timed, format, call, ret, lastDrop,
                   nRuns, guardBroken>>

\* Mutant of ClampQuality: without the Math.max(0.05, ...).
ClampQualityNoFloor(q) == Min(100, q)

\* const q = Math.max(0.05, Math.min(1, quality)), in hundredths
ClampQuality(q) == Max(5, Min(100, q))

\* A number or null used as a condition: null and 0 are falsy.
Truthy(n) == n # NoSize /\ n # 0

\* Math.round(num / den) for integers num and den > 0: the nearest integer, a tie
\* going upwards.
RoundDiv(num, den) == (2 * num + den) \div (2 * den)

\* Mutant of Reduction: the compressed size as a share of the original.
ReductionShowsRatio(fileSize, size) ==
    IF Truthy(size)
    THEN [fn |-> "reduction", shown |-> "percent", n |-> RoundDiv(100 * size, fileSize)]
    ELSE [fn |-> "reduction", shown |-> "dash"]

\* The Reduction cell:
\* compressedSize ? Math.round(((file.size - compressedSize) / file.size) * 100) + "%" : "—"
Reduction(fileSize, size) ==
    IF Truthy(size)
    THEN [fn |-> "reduction", shown |-> "percent",
          n |-> RoundDiv(100 * (fileSize - size), fileSize)]
    ELSE [fn |-> "reduction", shown |-> "dash"]

\* formatBytes: const sizes = ["B", "KB", "MB", "GB"], read at index i (from 0); an
\* index outside the array reads undefined, which the concatenation prints.
sizes == <<"B", "KB", "MB", "GB">>
SizesAt(i) == IF i + 1 \in DOMAIN sizes THEN sizes[i + 1] ELSE "undefined"

\* Math.floor(Math.log(m) / Math.log(1024)) for an integer m >= 1
RECURSIVE FloorLog1024(_)
FloorLog1024(m) == IF m < 1024 THEN 0 ELSE 1 + FloorLog1024(m \div 1024)

\* formatBytes(bytes) with the default decimals = 2, for bytes = b.m * 1024^b.e.  The
\* string returned is the number n / 100, trailing zeros trimmed by parseFloat, a space
\* and the unit; "0 B" is n = 0 with unit "B".
formatBytes(b) ==
    IF b.m = 0
    THEN [fn |-> "formatBytes", n |-> 0, unit |-> "B"]
    ELSE LET j == FloorLog1024(b.m)
             i == b.e + j
         IN [fn |-> "formatBytes", n |-> RoundDiv(100 * b.m, 1024 ^ j), unit |-> SizesAt(i)]

\* extForFormat
extForFormat(m) ==
    IF m = "image/webp" THEN "webp" ELSE IF m = "image/jpeg" THEN "jpg" ELSE "png"

\* The download link: rendered in the editor section iff compressedBlobUrl, its file
\* name ending in "-compressed." and extForFormat(format).
DownloadOffered == EditorShown /\ compressedBlobUrl # NULL
DownloadExt == extForFormat(format)

----------------------------------------------------------------------------
(* handleCompress *)

\* Mutant of CompressEnabled: the button without disabled={loading}.
CompressAlwaysEnabled == TRUE

\* The Compress button: rendered with the editor section, and disabled={loading}.
CompressEnabled == ~loading

\* Click on Compress: handleCompress up to its first await, loadImage(previewUrl).
HandleCompress(maxRuns) ==
    /\ mounted
    /\ file # NoFile /\ previewUrl # NULL
    /\ CompressEnabled
    /\ nRuns < maxRuns
    /\ loading' = TRUE
    /\ progress' = AnimateStart(3)
    /\ timers' = StartTimers(<<Interval(30)>>)
    /\ nRuns' = nRuns + 1
    /\ runs' = runs \cup {[id |-> nRuns + 1, pc |-> "decode", file |-> file.id,
                           previewUrl |-> previewUrl,
                           compressedBlobUrl |-> compressedBlobUrl,
                           format |-> format, quality |-> quality,
                           toBlob |-> NoCall]}
    /\ UNCHANGED <<file, previewUrl, dimensions, showModal, compressedBlobUrl,
                   compressedSize, statusText, listening, mounted, urls, dimLoads,
                   timed, format, quality, call, ret, lastDrop, guardBroken>>

\* statusRef.current.textContent = text, when the ref is attached.
Announce(text) == IF mounted THEN text ELSE statusText

\* Mutant of RunFail: the catch block also clears the stored result.
RunFailClearsResult(r) ==
    /\ runs' = runs \ {r}
    /\ statusText' = Announce("Compression failed")
    /\ loading' = SetState(FALSE, loading)
    /\ timers' = StartTimers(<<ResetTimer>>)
    /\ guardBroken' = (guardBroken /\ runs' # {})
    /\ compressedBlobUrl' = SetState(NULL, compressedBlobUrl)
    /\ compressedSize' = SetState(NoSize, compressedSize)
    /\ UNCHANGED <<file, previewUrl, dimensions, showModal, progress, listening, mounted,
                   urls, dimLoads, timed, format, quality, call, ret, lastDrop, nRuns>>

\* Mutant of RunFail: setLoading(false) at the end of the try block, not in finally.
RunFailKeepsLoading(r) ==
    /\ runs' = runs \ {r}
    /\ statusText' = Announce("Compression failed")
    /\ timers' = StartTimers(<<ResetTimer>>)
    /\ guardBroken' = (guardBroken /\ runs' # {})
    /\ UNCHANGED <<file, previewUrl, dimensions, showModal, loading, progress,
                   compressedBlobUrl, compressedSize, listening, mounted, urls, dimLoads,
                   timed, format, quality, call, ret, lastDrop, nRuns>>

\* The catch and finally blocks of run r.
RunFail(r) ==
    /\ runs' = runs \ {r}
    /\ statusText' = Announce("Compression failed")
    /\ loading' = SetState(FALSE, loading)
    /\ timers' = StartTimers(<<ResetTimer>>)
    /\ guardBroken' = (guardBroken /\ runs' # {})
    /\ UNCHANGED <<file, previewUrl, dimensions, showModal, progress, compressedBlobUrl,
                   compressedSize, listening, mounted, urls, dimLoads,
                   timed, format, quality, call, ret, lastDrop, nRuns>>

\* Run r from the blob of toBlob to the end of the finally block.
RunSucceed(r, blob) ==
    LET revoked == RevokeIfSet(urls, r.compressedBlobUrl, "handleCompress")
        compressedUrl == Len(urls) + 1
    IN /\ urls' = CreateObjectURL(revoked, "result", r.file, r.toBlob.mime)
       /\ compressedBlobUrl' = SetState(compressedUrl, compressedBlobUrl)
       /\ compressedSize' = SetState(blob, compressedSize)
       /\ progress' = SetState(AnimateStart(progress), progress)
       /\ timers' = StartTimers(<<Interval(100), DoneTimer, ResetTimer>>)
       /\ statusText' = Announce("Compression complete")
       /\ loading' = SetState(FALSE, loading)
       /\ runs' = runs \ {r}
       /\ guardBroken' = (guardBroken /\ runs' # {})
       /\ UNCHANGED <<file, previewUrl, dimensions, showModal, listening, mounted,
                      dimLoads, timed, format, quality, call, ret, lastDrop, nRuns>>

\* The loadImage of run r settles: onload ("ok"), onerror ("error"), or onload with
\* canvas.getContext("2d") returning null ("noctx").  After a decode the image is
\* drawn and canvas.toBlob is called.
RunDecoded(r, outcome) ==
    /\ r \in runs
    /\ r.pc = "decode"
    /\ IF outcome = "ok"
       THEN /\ runs' = (runs \ {r}) \cup
                        {[r EXCEPT !.pc = "encode",
                                   !.toBlob = [mime |-> r.format,
                                               q |-> ClampQuality(r.quality)]]}
            /\ progress' = SetState(AnimateStart(progress), progress)
            /\ timers' = StartTimers(<<Interval(60)>>)
            /\ UNCHANGED <<file, previewUrl, dimensions, showModal, loading,
                           compressedBlobUrl, compressedSize, statusText, listening,
                           mounted, urls, dimLoads,
                           timed, format, quality, call, ret, lastDrop, nRuns, guardBroken>>
       ELSE RunFail(r)

\* The toBlob callback of run r fires with a blob (its size) or with null (NoBlob).
RunEncoded(r, blob) ==
    /\ r \in runs
    /\ r.pc = "encode"
    /\ IF blob = NoBlob THEN RunFail(r) ELSE RunSucceed(r, blob)

----------------------------------------------------------------------------
(* handleRemove *)

\* Mutant of HandleRemove: without setCompressedSize(null).
HandleRemoveKeepsSize ==
    /\ mounted
    /\ file # NoFile /\ previewUrl # NULL
    /\ urls' = RevokeIfSet(RevokeIfSet(urls, previewUrl, "handleRemove"),
                           compressedBlobUrl, "handleRemove")
    /\ file' = NoFile
    /\ previewUrl' = NULL
    /\ dimensions' = NoDims
    /\ compressedBlobUrl' = NULL
    /\ progress' = 0
    /\ loading' = FALSE
    /\ guardBroken' = (guardBroken \/ runs # {})
    /\ UNCHANGED <<compressedSize, showModal, statusText, listening, mounted, runs,
                   dimLoads, timers, timed, format, quality, call, ret, lastDrop, nRuns>>

\* The Remove button: handleRemove.
HandleRemove ==
    /\ mounted
    /\ file # NoFile /\ previewUrl # NULL
    /\ urls' = RevokeIfSet(RevokeIfSet(urls, previewUrl, "handleRemove"),
                           compressedBlobUrl, "handleRemove")
    /\ file' = NoFile
    /\ previewUrl' = NULL
    /\ dimensions' = NoDims
    /\ compressedBlobUrl' = NULL
    /\ compressedSize' = NoSize
    /\ progress' = 0
    /\ loading' = FALSE
    /\ guardBroken' = (guardBroken \/ runs # {})
    /\ UNCHANGED <<showModal, statusText, listening, mounted, runs, dimLoads, timers,
                   timed, format, quality, call, ret, lastDrop, nRuns>>

----------------------------------------------------------------------------
(* The modal and the Escape effect *)

\* Mutant of KeyListenerEffect: the effect never registers the listener.
KeyListenerNeverRegistered(show) == FALSE

\* The effect on [showModal]: the cleanup of the previous render removes the keydown
\* listener, and the effect registers it again iff showModal.
KeyListenerEffect(show) == show

\* The dialog is rendered iff showModal && previewUrl.
DialogShown == showModal /\ previewUrl # NULL

\* Click on the preview image or on the "Quick preview modal" button.
OpenModal ==
    /\ mounted
    /\ ~showModal
    /\ showModal' = TRUE
    /\ listening' = KeyListenerEffect(TRUE)
    /\ UNCHANGED <<file, previewUrl, dimensions, loading, progress, compressedBlobUrl,
                   compressedSize, statusText, mounted, urls, runs, dimLoads, timers,
                   timed, format, quality, call, ret, lastDrop, nRuns, guardBroken>>

\* Click on the dialog's backdrop or on its close button.
CloseModal ==
    /\ mounted
    /\ DialogShown
    /\ showModal' = FALSE
    /\ listening' = KeyListenerEffect(FALSE)
    /\ UNCHANGED <<file, previewUrl, dimensions, loading, progress, compressedBlobUrl,
                   compressedSize, statusText, mounted, urls, runs, dimLoads, timers,
                   timed, format, quality, call, ret, lastDrop, nRuns, guardBroken>>

\* A keydown event with key "Escape" on the document: onKey runs iff it is registered.
EscapeKey ==
    /\ IF listening
       THEN /\ showModal' = FALSE
            /\ listening' = KeyListenerEffect(FALSE)
       ELSE UNCHANGED <<showModal, listening>>
    /\ UNCHANGED <<file, previewUrl, dimensions, loading, progress, compressedBlobUrl,
                   compressedSize, statusText, mounted, urls, runs, dimLoads, timers,
                   timed, format, quality, call, ret, lastDrop, nRuns, guardBroken>>

----------------------------------------------------------------------------
(* Unmount *)

\* What the closure of the mount effect (deps []) captured: the state of the first render.
MountClosure == [previewUrl |-> NULL, compressedBlobUrl |-> NULL]

\* The component is torn down: the cleanups of both effects run.  Runs in flight go on;
\* timers and dimension loads are dropped from the model, for their callbacks only call
\* state setters, which React now ignores.
Unmount ==
    /\ mounted
    /\ mounted' = FALSE
    /\ urls' = RevokeIfSet(RevokeIfSet(urls, MountClosure.previewUrl, "unmount"),
                           MountClosure.compressedBlobUrl, "unmount")
    /\ listening' = FALSE
    /\ timers' = <<>>
    /\ dimLoads' = {}
    /\ UNCHANGED <<file, previewUrl, dimensions, showModal, loading, progress,
                   compressedBlobUrl, compressedSize, statusText, runs,
                   timed, format, quality, call, ret, lastDrop, nRuns,
                   guardBroken>>

----------------------------------------------------------------------------
(* Specifications *)

InitComponent ==
    /\ file = NoFile
    /\ previewUrl = NULL
    /\ dimensions = NoDims
    /\ showModal = FALSE
    /\ loading = FALSE
    /\ progress = 0
    /\ compressedBlobUrl = NULL
    /\ compressedSize = NoSize
    /\ statusText = ""
    /\ listening = FALSE
    /\ mounted = TRUE
    /\ urls = <<>>
    /\ runs = {}
    /\ dimLoads = {}
    /\ timers = <<>>
    /\ format = "image/webp"
    /\ quality = 80
    /\ lastDrop = NoFile
    /\ nRuns = 0
    /\ guardBroken = FALSE

\* The mounted widget; no pure function is under examination.
InitWidget == InitComponent /\ call = NoCall /\ ret = NoRet

Init == InitWidget /\ timed = "clock"
InitHandles == InitWidget /\ timed = "none"
InitProgress == InitWidget /\ timed = "any"

DecodeOutcomes == {"ok", "error", "noctx"}
EncodeOutcomes == BlobSizes \cup {NoBlob}

UserStep(maxDrops, maxRuns) ==
    \/ \E f \in DroppableFiles(lastDrop.id + 1) : DropFile(f, maxDrops)
    \/ HandleCompress(maxRuns)
    \/ HandleRemove
    \/ OpenModal
    \/ CloseModal
    \/ EscapeKey
    \/ Unmount

RunStep ==
    \/ \E r \in runs, o \in DecodeOutcomes : RunDecoded(r, o)
    \/ \E r \in runs, b \in EncodeOutcomes : RunEncoded(r, b)

AsyncStep ==
    \/ \E l \in dimLoads, ok \in BOOLEAN : DimLoaded(l, ok)
    \/ RunStep

TimerFire ==
    \/ \E i \in DOMAIN timers : IntervalFire(i)
    \/ \E i \in DOMAIN timers : DoneTimerFire(i)
    \/ \E i \in DOMAIN timers : ResetTimerFire(i)

TimerStep ==
    \/ TimerFire
    \/ Tick

\* The widget with its timers and the clock.
Next == UserStep(MaxTimedDrops, MaxTimedRuns) \/ AsyncStep \/ TimerStep

Spec == Init /\ [][Next]_vars

\* The widget without its timers, which are not tracked and never fire: no timer
\* callback reads or writes anything but progress and the timers themselves.
NextHandles == UserStep(MaxDrops, MaxRuns) \/ AsyncStep

SpecHandles == InitHandles /\ [][NextHandles]_vars

\* What reads or writes progress: selections, run starts, handleRemove, the
\* continuations of the runs and the timer callbacks, the latter in any order.
NextProgress ==
    \/ \E f \in DroppableFiles(lastDrop.id + 1) : DropFile(f, MaxProgressDrops)
    \/ HandleCompress(MaxProgressRuns)
    \/ HandleRemove
    \/ RunStep
    \/ TimerFire

SpecProgress == InitProgress /\ [][NextProgress]_vars

SettingsStep ==
    \/ \E m \in Formats : SetFormat(m)
    \/ \E q \in SliderValues : SetQuality(q)

\* The widget without its timers and with its format and quality controls.
NextSettings == UserStep(MaxSettingsDrops, MaxSettingsRuns) \/ AsyncStep \/ SettingsStep

SpecSettings == InitHandles /\ [][NextSettings]_vars

----------------------------------------------------------------------------
(* The pure functions, each applied to an argument drawn from a bounded set *)

ClampCalls ==
    {[fn |-> "clampQuality", q |-> q] : q \in (0 - QualityMargin)..(100 + QualityMargin)}

\* File sizes and stored result sizes for the reduction display: those of the widget,
\* the sizes of the documented example, and small ones on which the rounding shows.
OriginalSizes == {f \in FileSizes : f <= maxSize} \cup {1000000, 200, 3}
StoredSizes == BlobSizes \cup {1, 2, 143, 199}

ReductionCalls ==
    {[fn |-> "reduction", fileSize |-> o, compressedSize |-> c] :
        o \in OriginalSizes, c \in StoredSizes \cup {NoSize}}

\* Byte counts handed to formatBytes.  A count is m * 1024^e, which reaches beyond the
\* 32-bit integers of the model checker: e = 0 for the sizes of the widget.
Mantissas == FileSizes \cup BlobSizes \cup {1, 512, 1023, 1024, 1029, 1536, 1048575, 1048576}

FormatBytesCalls ==
    {[fn |-> "formatBytes", bytes |-> [m |-> m, e |-> e]] :
        m \in Mantissas, e \in 0..MaxExponent}
        \cup {[fn |-> "formatBytes", bytes |-> [m |-> 0, e |-> 0]]}

PureCalls == ClampCalls \cup ReductionCalls \cup FormatBytesCalls

InitPure == InitComponent /\ timed = "none" /\ call \in PureCalls /\ ret = NoRet

\* handleCompress computes the quality it hands to toBlob.
ApplyClampQuality ==
    /\ call.fn = "clampQuality"
    /\ ret = NoRet
    /\ ret' = [fn |-> call.fn, q |-> ClampQuality(call.q)]
    /\ UNCHANGED <<stateVars, call>>

\* The render evaluates the Reduction cell of the editor section.
ApplyReduction ==
    /\ call.fn = "reduction"
    /\ ret = NoRet
    /\ ret' = Reduction(call.fileSize, call.compressedSize)
    /\ UNCHANGED <<stateVars, call>>

\* The render evaluates formatBytes for a size cell.
ApplyFormatBytes ==
    /\ call.fn = "formatBytes"
    /\ ret = NoRet
    /\ ret' = formatBytes(call.bytes)
    /\ UNCHANGED <<stateVars, call>>

NextPure ==
    \/ ApplyClampQuality
    \/ ApplyReduction
    \/ ApplyFormatBytes

SpecPure == InitPure /\ [][NextPure]_vars

----------------------------------------------------------------------------
(* Claims *)

Range(s) == {s[i] : i \in DOMAIN s}

\* C1: a handle that was held when onDrop accepted a file (onDrop revoked it) is revoked
\* exactly once over the whole execution: by onDrop, and by nothing before or after.
C1_DroppedHandlesReleasedOnce ==
    \A u \in DOMAIN urls :
        "onDrop" \in Range(urls[u].revokedBy) => urls[u].revokedBy = <<"onDrop">>

\* C2: while the widget is mounted, the only live preview URL is previewUrl and the only
\* live result URL is compressedBlobUrl (so at most one of each is live).
C2_LiveHandlesAreReferenced ==
    mounted => /\ LiveUrls("preview") \subseteq {previewUrl}
               /\ LiveUrls("result") \subseteq {compressedBlobUrl}

\* C3: the unmount step releases every handle that is live when it happens: no handle
\* created before the teardown is live after it.
C3_TeardownReleasesLiveHandles ==
    [][(mounted /\ ~mounted') =>
          \A u \in DOMAIN urls : urls'[u].revokedBy # <<>>]_vars

\* C4: right after handleRemove, file, dimensions, previewUrl, compressedBlobUrl and
\* compressedSize are absent, progress is 0, and the preview and result handles held
\* before the removal are no longer live.
C4_RemoveResets ==
    [][HandleRemove =>
          /\ file' = NoFile
          /\ dimensions' = NoDims
          /\ previewUrl' = NULL
          /\ compressedBlobUrl' = NULL
          /\ compressedSize' = NoSize
          /\ progress' = 0
          /\ \A u \in {previewUrl, compressedBlobUrl} \ {NULL} :
                urls'[u].revokedBy # <<>>]_vars

\* C4 witness: handleRemove has just run while a result was held and a run was in flight.
C4_Witness ==
    /\ file = NoFile
    /\ previewUrl = NULL
    /\ progress = 0
    /\ runs # {}
    /\ \E u \in DOMAIN urls :
          urls[u].kind = "result" /\ urls[u].revokedBy = <<"handleRemove">>

HasTimer(kind) == \E i \in DOMAIN timers : timers[i].kind = kind

\* C5: once every run that was started has completed and its 700 ms reset timer has
\* fired, progress is 0 and stays 0 (no other timer raises it again).
C5_ProgressStaysZeroAfterReset ==
    (mounted /\ nRuns > 0 /\ runs = {} /\ ~HasTimer("reset")) => progress = 0

\* Run r fails in this step: its image does not decode, the 2d context is unavailable,
\* or toBlob yields null.
RunFailsNow(r) ==
    \/ RunDecoded(r, "error")
    \/ RunDecoded(r, "noctx")
    \/ RunEncoded(r, NoBlob)

\* C6: the step in which a run fails leaves compressedBlobUrl, compressedSize and the
\* URL store as they are (as do the run's earlier steps: its start and its decode), sets
\* loading to false and the status text to "Compression failed".
C6_FailureKeepsResult ==
    [][mounted =>
          /\ \A r \in runs :
                RunFailsNow(r) =>
                    /\ UNCHANGED <<compressedBlobUrl, compressedSize, urls>>
                    /\ loading' = FALSE
                    /\ statusText' = "Compression failed"
          /\ (HandleCompress(MaxRuns) \/ \E r \in runs : RunDecoded(r, "ok")) =>
                UNCHANGED <<compressedBlobUrl, compressedSize, urls>>]_vars

\* C6 witness: a second run has failed while the result of the first is still held, live.
C6_Witness ==
    /\ mounted
    /\ statusText = "Compression failed"
    /\ nRuns = 2
    /\ runs = {}
    /\ ~loading
    /\ compressedBlobUrl # NULL
    /\ compressedSize # NoSize
    /\ Live(compressedBlobUrl)

\* C7, as claimed: no second run starts before the previous one has ended, so at most
\* one run is in flight.  (The form the claim calls equivalent, loading true whenever a
\* run is in flight, already fails one step earlier, at handleRemove.)
C7_SingleRunInFlight ==
    Cardinality(runs) <= 1

\* C7, amended: at most one run is in flight, and loading is true whenever one is, as
\* long as handleRemove has not run while a run was in flight (since the widget last
\* had no run in flight).
C7_SingleRunUnlessRemovedMidRun ==
    ~guardBroken =>
        /\ Cardinality(runs) <= 1
        /\ runs # {} => loading

\* C7 witness: a second run is in flight alone, after a second selection, loading true.
C7_Witness ==
    /\ ~guardBroken
    /\ nRuns = 2
    /\ Cardinality(runs) = 1
    /\ loading
    /\ file.id >= 2

\* C8: offering one file larger than 10 MiB changes neither file, previewUrl,
\* dimensions, compressedBlobUrl, compressedSize nor the URL store.
C8_OversizeRejected ==
    [][(lastDrop' # lastDrop /\ lastDrop'.size > 10 * 1024 * 1024) =>
          UNCHANGED <<file, previewUrl, dimensions, compressedBlobUrl,
                      compressedSize, urls>>]_vars

\* C8 witness: the latest file offered was too large, while a file and a result are held.
C8_Witness ==
    /\ lastDrop.size > 10 * 1024 * 1024
    /\ lastDrop.image
    /\ file # NoFile /\ file # lastDrop
    /\ previewUrl # NULL /\ Live(previewUrl)
    /\ compressedBlobUrl # NULL /\ Live(compressedBlobUrl)

\* C9: the step that ends a run sets loading to false and the status text to
\* "Compression complete" when it stores a new result URL with the blob's size, and to
\* "Compression failed" when the run throws and stores nothing; a decode that succeeds
\* does not end the run.
C9_RunEndsAnnounced ==
    [][mounted =>
          \A r \in runs :
              /\ \A b \in BlobSizes :
                    RunEncoded(r, b) =>
                        /\ statusText' = "Compression complete"
                        /\ loading' = FALSE
                        /\ compressedBlobUrl' \in DOMAIN urls' \ DOMAIN urls
                        /\ compressedSize' = b
                        /\ r \notin runs'
              /\ RunFailsNow(r) =>
                    /\ statusText' = "Compression failed"
                    /\ loading' = FALSE
                    /\ compressedBlobUrl' = compressedBlobUrl
                    /\ DOMAIN urls' = DOMAIN urls
                    /\ r \notin runs'
              /\ RunDecoded(r, "ok") =>
                    /\ \E r2 \in runs' : r2.id = r.id
                    /\ UNCHANGED <<statusText, loading>>]_vars

\* C9 witness: a second run has completed and superseded the result of the first.
C9_Witness ==
    /\ mounted
    /\ statusText = "Compression complete"
    /\ ~loading
    /\ runs = {}
    /\ compressedBlobUrl # NULL
    /\ \E u \in DOMAIN urls : urls[u].revokedBy = <<"handleCompress">>

\* C10: while mounted, the keydown listener is registered iff showModal; pressing Escape
\* while showModal is true leads to showModal false, and pressing it while showModal is
\* false changes nothing.
C10_EscapeClosesModal ==
    mounted =>
        /\ listening <=> showModal
        /\ showModal => ENABLED (EscapeKey /\ ~showModal' /\ ~listening')
        /\ ~showModal => ~ENABLED (EscapeKey /\ vars' # vars)

\* C10 witness: the dialog is open, with the listener registered.
C10_Witness ==
    /\ mounted
    /\ DialogShown
    /\ listening

\* C11: whatever the quality state, in hundredths, the quality handed to toBlob lies in
\* [0.05, 1.0]: the state's value when that is in range, 0.05 when it is below and
\* 1.0 when it is above.
C11_QualityClamped ==
    (call.fn = "clampQuality" /\ ret # NoRet) =>
        /\ ret.q \in 5..100
        /\ call.q \in 5..100 => ret.q = call.q
        /\ call.q < 5 => ret.q = 5
        /\ call.q > 100 => ret.q = 100

C11_Witness ==
    /\ call.fn = "clampQuality" /\ call.q < 0
    /\ ret # NoRet /\ ret.q = 5

Abs(a) == IF a >= 0 THEN a ELSE -a

\* C12: the Reduction cell shows a percentage whenever a compressed size is stored and a
\* dash otherwise; the percentage is the integer nearest to
\* (file.size - compressedSize) / file.size * 100, and sizes 1,000,000 and 400,000
\* show 60%.
C12_ReductionShown ==
    (call.fn = "reduction" /\ ret # NoRet) =>
        LET o == call.fileSize
            c == call.compressedSize
        IN /\ c = NoSize => ret.shown = "dash"
           /\ c # NoSize =>
                /\ ret.shown = "percent"
                /\ 2 * Abs(100 * (o - c) - ret.n * o) <= o
           /\ (o = 1000000 /\ c = 400000) => ret.n = 60

C12_Witness ==
    /\ call.fn = "reduction" /\ call.fileSize = 1000000 /\ call.compressedSize = 400000
    /\ ret # NoRet /\ ret.shown = "percent" /\ ret.n = 60

\* C13: for every byte count b >= 0, formatBytes(b) is "0 B" iff b = 0, and for b > 0
\* its unit is sizes[i] for the largest i with 1024^i <= b, that i being in 0..3 (the
\* unit is one of B, KB, MB, GB), and its number is b / 1024^i rounded to 2 decimals.
C13_FormatBytesScaled ==
    (call.fn = "formatBytes" /\ ret # NoRet) =>
        LET b == call.bytes IN
        /\ (ret.n = 0 /\ ret.unit = "B") <=> b.m = 0
        /\ b.m > 0 =>
            \E i \in 0..3 :
                /\ i - b.e \in 0..2
                /\ 1024 ^ (i - b.e) <= b.m
                /\ b.m < 1024 ^ (i - b.e + 1)
                /\ ret.unit = sizes[i + 1]
                /\ 2 * Abs(100 * b.m - ret.n * 1024 ^ (i - b.e)) <= 1024 ^ (i - b.e)

\* The same for counts below 1024^4, where it holds: the gigabyte is the last unit.
C13_BelowTerabyte ==
    (call.fn = "formatBytes" /\ ret # NoRet /\ call.bytes.e + FloorLog1024(call.bytes.m) <= 3)
        => C13_FormatBytesScaled

\* A run has started and the reset to 0 scheduled in its finally block has not fired.
InRun == nRuns > 0 /\ (runs # {} \/ HasTimer("reset"))

\* A callback of the progress animation other than the reset: an interval ticks or the
\* 300 ms timer fires.
AnimationCallback ==
    \/ \E i \in DOMAIN timers : IntervalFire(i)
    \/ \E i \in DOMAIN timers : DoneTimerFire(i)

\* C14: during a run, from its start until the reset scheduled in its finally block, no
\* tick of an animateProgressTo interval and no timer of the run lowers progress.
C14_ProgressNeverDecreasesInRun ==
    [][(InRun /\ AnimationCallback) => progress' >= progress]_vars

\* C15: the dialog (shown iff showModal and previewUrl is present) comes into view only
\* in the step of an explicit preview action: no onDrop, handleRemove or compression
\* step leads from a state where it is not shown to one where it is.
C15_DialogOpensOnlyByPreview ==
    [][(~DialogShown /\ DialogShown') => OpenModal]_vars

\* C16: in every reachable state, whatever the interleaving of interval ticks, the 300 ms
\* and 700 ms timers, run starts and handleRemove, progress is an integer from 0 to 100.
C16_ProgressInRange == progress \in 0..100

\* Progress is at 100 while a second run is in flight, an interval is still ticking and
\* a reset is still due.
C16_Witness ==
    progress = 100 /\ nRuns = 2 /\ runs # {} /\ HasTimer("interval") /\ HasTimer("reset")

\* C17: whenever a compression result is held, it was produced by compressing the file
\* currently selected: a run started on one file never stores its result after that
\* file has been replaced or removed.
C17_ResultOfCurrentFile ==
    (mounted /\ compressedBlobUrl # NULL) =>
        (file # NoFile /\ urls[compressedBlobUrl].of = file.id)

\* C18: whenever dimensions are present while a file is selected, they are those of the
\* file currently selected: a dimension load of an earlier selection that settles later
\* does not set them, and a new selection does not keep the previous file's dimensions.
C18_DimensionsOfCurrentFile ==
    (mounted /\ file # NoFile /\ dimensions # NoDims) => dimensions = file.id

\* C19: whenever the download link is offered, the extension of its file name is the one
\* of the format the held result was encoded with, also after the format selection has
\* changed since the run.
C19_DownloadExtMatchesResult ==
    DownloadOffered => DownloadExt = extForFormat(urls[compressedBlobUrl].type)

\* handleRemove has run and no selection has been accepted since.
Removed ==
    /\ mounted
    /\ file = NoFile
    /\ \E u \in DOMAIN urls : "handleRemove" \in Range(urls[u].revokedBy)

\* C20: after handleRemove and until the next accepted selection the widget stays reset:
\* compressedBlobUrl, compressedSize and dimensions stay absent, progress stays 0 and no
\* object URL is created, also when a run or a dimension load started before the removal
\* completes.
C20_StaysResetAfterRemove ==
    [][(Removed /\ Removed') =>
            /\ compressedBlobUrl' = NULL
            /\ compressedSize' = NoSize
            /\ dimensions' = NoDims
            /\ progress' = 0
            /\ Len(urls') = Len(urls)]_vars

====
